---- MODULE Spec2Model ----
(***************************************************************************)
(* Model of the long-poll event subscription of pykefcontrol:              *)
(* KefConnector / KefAsyncConnector poll_speaker, _get_polling_queue,      *)
(* parse_events and get_song_information (pykefcontrol/kef_connector.py).  *)
(*                                                                         *)
(* A poll_speaker call is split at its network requests (the subscribe     *)
(* request and the long-poll request): each step runs the code from one    *)
(* request to the next.  The wall clock advances between steps.            *)
(*                                                                         *)
(* ProfileManager (pykefcontrol/profile_manager.py): the profile directory *)
(* and the operations save_profile, load_profile, delete_profile and       *)
(* rename_profile, one step each.                                          *)
(*                                                                         *)
(* mute / unmute of both connector classes, one step each, on the          *)
(* speaker's volume.                                                       *)
(***************************************************************************)
EXTENDS Integers, Sequences, FiniteSets, TLC

VARIABLES
    impl,                        \* "sync" = KefConnector, "async" = KefAsyncConnector
    now,                         \* time.time(), in seconds
    polling_queue,               \* self.polling_queue
    last_polled,                 \* self.last_polled
    _previous_poll_song_status,  \* self._previous_poll_song_status
    created_by,                  \* history: arguments of the call that created polling_queue
    call,                        \* per caller: position in poll_speaker, arguments, locals, requests sent
    profile_dir,                 \* the files of ProfileManager.profile_dir, by file name without ".json"
    saved,                       \* history: per profile name, what was last saved under that name
    pm_op,                       \* history: the last ProfileManager operation and its result
    volume,                      \* the speaker's player:volume
    previous_volume,             \* self.previous_volume
    mute_hist                    \* history: the mute() calls since the last other change of volume

pmvars == <<profile_dir, saved, pm_op>>
connvars == <<impl, polling_queue, last_polled, _previous_poll_song_status, created_by, call>>
volvars == <<volume, previous_volume, mute_hist>>
vars == <<impl, now, polling_queue, last_polled, _previous_poll_song_status, created_by, call,
          profile_dir, saved, pm_op, volume, previous_volume, mute_hist>>

(***************************************************************************)
(* Bounds                                                                  *)
(***************************************************************************)
MaxClock == 77        \* the clock stops advancing here
MaxEvents == 2        \* longest pollQueue response list
MaxMutes == 3         \* most mute() calls in a row

(***************************************************************************)
(* Python / JSON values.  Every value carries its type, so that values of  *)
(* different types are different and never confused.                       *)
(***************************************************************************)
None == [t |-> "null"]
JInt(n) == [t |-> "int", i |-> n]
JStr(s) == [t |-> "str", s |-> s]
JBool(b) == [t |-> "bool", b |-> b]
JObj(f) == [t |-> "obj", o |-> f]
Raise(e) == [t |-> "exc", e |-> e]
Chars(s) == [t |-> "chars", c |-> s]      \* a Python str, as its characters
EmptyMap == [x \in {} |-> None]
EmptyDict == JObj(EmptyMap)

IsExc(v) == v.t = "exc"

\* d[k] = v on a dict held as a function
Put(f, k, v) == [x \in (DOMAIN f) \cup {k} |-> IF x = k THEN v ELSE f[x]]

\* d.get(k, dflt): only a dict has .get; an exception raised while computing d goes on
PyGet(d, k, dflt) ==
    IF IsExc(d) THEN d
    ELSE IF d.t # "obj" THEN Raise("AttributeError")
    ELSE IF k \in DOMAIN d.o THEN d.o[k]
    ELSE dflt

\* truth value of a Python object
Truthy(v) ==
    CASE v.t = "null" -> FALSE
      [] v.t = "int"  -> v.i # 0
      [] v.t = "str"  -> v.s # ""
      [] v.t = "bool" -> v.b
      [] v.t = "obj"  -> DOMAIN v.o # {}
      [] OTHER        -> TRUE

\* the first exception of a sequence of evaluated expressions, None when there is none
RECURSIVE FirstExc(_)
FirstExc(s) ==
    IF s = <<>> THEN None
    ELSE IF IsExc(Head(s)) THEN Head(s)
    ELSE FirstExc(Tail(s))

(***************************************************************************)
(* Event decoding                                                          *)
(***************************************************************************)

\* get_song_information starts with a getData request when it is given None
NeedsPlayerData(song_data) == song_data = None

\* get_song_information without the fallback of album_artist to artist
get_song_information_NoFallback(song_data, fetched) ==
    LET data == IF NeedsPlayerData(song_data) THEN fetched ELSE song_data
        trackRoles == PyGet(data, "trackRoles", EmptyDict)
        title == PyGet(trackRoles, "title", None)
        metadata == PyGet(PyGet(trackRoles, "mediaData", EmptyDict), "metaData", EmptyDict)
        artist == PyGet(metadata, "artist", None)
        album == PyGet(metadata, "album", None)
        album_artist == PyGet(metadata, "albumArtist", None)
        cover_url == PyGet(trackRoles, "icon", None)
        service_id == PyGet(metadata, "serviceID", None)
        exc == FirstExc(<<title, metadata, artist, album, album_artist, cover_url, service_id>>)
    IN  IF exc # None THEN exc
        ELSE JObj("title" :> title @@ "artist" :> artist @@ "album" :> album
                  @@ "album_artist" :> album_artist
                  @@ "cover_url" :> cover_url @@ "service_id" :> service_id)

\* get_song_information(song_data); fetched is what _get_player_data() returns
\* (or raises) when song_data is None
get_song_information(song_data, fetched) ==
    LET data == IF NeedsPlayerData(song_data) THEN fetched ELSE song_data
        trackRoles == PyGet(data, "trackRoles", EmptyDict)
        title == PyGet(trackRoles, "title", None)
        metadata == PyGet(PyGet(trackRoles, "mediaData", EmptyDict), "metaData", EmptyDict)
        artist == PyGet(metadata, "artist", None)
        album == PyGet(metadata, "album", None)
        album_artist == PyGet(metadata, "albumArtist", None)
        cover_url == PyGet(trackRoles, "icon", None)
        service_id == PyGet(metadata, "serviceID", None)
        exc == FirstExc(<<title, metadata, artist, album, album_artist, cover_url, service_id>>)
    IN  IF exc # None THEN exc
        ELSE JObj("title" :> title @@ "artist" :> artist @@ "album" :> album
                  @@ "album_artist" :> (IF Truthy(album_artist) THEN album_artist ELSE artist)
                  @@ "cover_url" :> cover_url @@ "service_id" :> service_id)

\* parsed_events[field] = value, unless computing value raised
Assign(parsed_events, field, value) ==
    IF IsExc(value) THEN value ELSE JObj(Put(parsed_events, field, value))

\* the body of the loop of parse_events for one topic: the new parsed_events, or the exception
ParseEvent(parsed_events, event, value, fetched) ==
    IF event = "settings:/kef/play/physicalSource" THEN
        Assign(parsed_events, "source", PyGet(value, "kefPhysicalSource", None))
    ELSE IF event = "player:player/data/playTime" THEN
        Assign(parsed_events, "song_status", PyGet(value, "i64_", None))
    ELSE IF event = "player:volume" THEN
        Assign(parsed_events, "volume", PyGet(value, "i32_", None))
    ELSE IF event = "player:player/data" THEN
        LET song_info == get_song_information(value, fetched)
            song_length == PyGet(PyGet(value, "status", EmptyDict), "duration", None)
            status == PyGet(value, "state", None)
            exc == FirstExc(<<song_info, song_length, status>>)
        IN  IF exc # None THEN exc
            ELSE JObj(Put(Put(Put(parsed_events, "song_info", song_info),
                              "song_length", song_length), "status", status))
    ELSE IF event = "settings:/kef/host/speakerStatus" THEN
        Assign(parsed_events, "speaker_status", PyGet(value, "kefSpeakerStatus", None))
    ELSE IF event = "settings:/deviceName" THEN
        Assign(parsed_events, "device_name", PyGet(value, "string_", None))
    ELSE IF event = "settings:/mediaPlayer/mute" THEN
        Assign(parsed_events, "mute", PyGet(value, "bool_", None))
    ELSE
        LET other == IF PyGet(JObj(parsed_events), "other", None) = None
                     THEN EmptyMap ELSE parsed_events["other"].o
        IN  JObj(Put(parsed_events, "other", JObj(Put(other, event, value))))

\* for event in events: ... ; a dict is walked in the order its keys were inserted.
\* gets counts the getData requests made on the way.
RECURSIVE ParseLoop(_, _, _, _, _)
ParseLoop(events, i, parsed_events, gets, fetched) ==
    IF i > Len(events.keys) THEN [ret |-> JObj(parsed_events), gets |-> gets]
    ELSE LET event == events.keys[i]
             value == events.val[event]
             g == IF event = "player:player/data" /\ NeedsPlayerData(value)
                  THEN gets + 1 ELSE gets
             r == ParseEvent(parsed_events, event, value, fetched)
         IN  IF IsExc(r) THEN [ret |-> r, gets |-> g]
             ELSE ParseLoop(events, i + 1, r.o, g, fetched)

\* parse_events starting from a record that already has an empty other bucket
parse_events_WithOther(events, fetched) ==
    ParseLoop(events, 1, "other" :> EmptyDict, 0, fetched)

\* parse_events(events): the record returned or the exception raised, and the requests made
parse_events(events, fetched) == ParseLoop(events, 1, EmptyMap, 0, fetched)

\* poll_speaker, "fill events lists": events maps each path to the list of its events,
\* keys in order of first occurrence
RECURSIVE FillEvents(_, _, _)
FillEvents(json_output, i, events) ==
    IF i > Len(json_output) THEN events
    ELSE LET j == json_output[i]
             path == j.o["path"].s
         IN  IF path \in DOMAIN events.val
             THEN FillEvents(json_output, i + 1,
                             [events EXCEPT !.val[path] = Append(@, j)])
             ELSE FillEvents(json_output, i + 1,
                             [keys |-> Append(events.keys, path),
                              val |-> Put(events.val, path, <<j>>)])

\* LastItemValue taking the first event of the list: events[k][0]
LastItemValue_First(list) == PyGet(list[1], "itemValue", JStr("updated"))

\* events[k][-1].get("itemValue", "updated")
LastItemValue(list) == PyGet(list[Len(list)], "itemValue", JStr("updated"))

\* poll_speaker, "prune events lists"
PruneEvents(events) ==
    [keys |-> events.keys,
     val |-> [k \in DOMAIN events.val |-> LastItemValue(events.val[k])]]

\* the deduplicated event map poll_speaker builds from a pollQueue response
DedupeEvents(json_output) ==
    PruneEvents(FillEvents(json_output, 1, [keys |-> <<>>, val |-> EmptyMap]))

(***************************************************************************)
(* ProfileManager                                                          *)
(***************************************************************************)
\* profile names, as their characters: two names that differ in a space and an
\* underscore, another name, and a blank name
Names == { <<"a", " ", "b">>, <<"a", "_", "b">>, <<"c">>, <<" ">> }

\* str.isalnum on the characters used in Names
IsAlnum(ch) == ch \in {"a", "b", "c"}

\* str.strip(): without leading and trailing blanks
RECURSIVE Strip(_)
Strip(str) ==
    IF str = <<>> THEN str
    ELSE IF Head(str) = " " THEN Strip(Tail(str))
    ELSE IF str[Len(str)] = " " THEN Strip(SubSeq(str, 1, Len(str) - 1))
    ELSE str

\* _get_profile_path(name): the name of the profile's file, without directory and ".json"
_get_profile_path(name) ==
    LET kept == SelectSeq(name, LAMBDA ch : IsAlnum(ch) \/ ch \in {" ", "-", "_"})
        safe_name == Strip(kept)
    IN  [i \in 1..Len(safe_name) |-> IF safe_name[i] = " " THEN "_" ELSE safe_name[i]]

FileNames == {_get_profile_path(name) : name \in Names}

\* profile data: two EQ profiles, and a dict without the key kefEqProfileV2
ProfileDatas ==
    { JObj("kefEqProfileV2" :> JInt(1)), JObj("kefEqProfileV2" :> JInt(2)),
      JObj("eq" :> JInt(1)) }

\* json.dump / json.load of a file: the file holds a JSON document
JsonDump(v) == [t |-> "json", doc |-> v]
JsonLoad(text) == text.doc

\* the dict save_profile writes
ProfileFile(name, created_at, modified_at, profile_data) ==
    JObj("name" :> Chars(name) @@ "created_at" :> JInt(created_at)
         @@ "modified_at" :> JInt(modified_at) @@ "profile_data" :> profile_data)

\* history: the name was renamed to; nothing was saved under it
Renamed == [t |-> "renamed"]
NoOp == [op |-> "none", name |-> <<>>, to |-> <<>>, result |-> None]
Op(op, name, to, result) == [op |-> op, name |-> name, to |-> to, result |-> result]

\* ProfileManager.__init__: the directory holds no profile
InitProfiles ==
    /\ profile_dir = [f \in FileNames |-> None]
    /\ saved = [name \in Names |-> None]
    /\ pm_op = NoOp

(***************************************************************************)
(* Subscription handle                                                     *)
(***************************************************************************)
Callers == {1, 2}
Timeouts == {10, 20}             \* the timeout argument; 10 is its default
TickSteps == {25, 26}            \* how far the clock moves in one step
STALE == 50                      \* seconds after which a queue is recreated
ASYNC_POLL_TIMEOUT == 10         \* the 10 of "timeout=10 + 0.5" in KefAsyncConnector
ASYNC_PREVIOUS_VOLUME == 15      \* previous_volume of a new KefAsyncConnector

\* history: the call that created the queue (its flags) and the subscribe response it got
Creation(ss, pss, json_output, t) ==
    [t |-> "creation", song_status |-> ss, poll_song_status |-> pss,
     response |-> Chars(json_output), at |-> t]

Topic(path, type) == [path |-> path, type |-> type]

\* the "subscribe" list of the payload of _get_polling_queue / get_polling_queue
FixedTopics ==
    << Topic("settings:/mediaPlayer/playMode", "itemWithValue"),
       Topic("playlists:pq/getitems", "rows"),
       Topic("notifications:/display/queue", "rows"),
       Topic("settings:/kef/host/maximumVolume", "itemWithValue"),
       Topic("player:volume", "itemWithValue"),
       Topic("kef:fwupgrade/info", "itemWithValue"),
       Topic("settings:/kef/host/volumeStep", "itemWithValue"),
       Topic("settings:/kef/host/volumeLimit", "itemWithValue"),
       Topic("settings:/mediaPlayer/mute", "itemWithValue"),
       Topic("settings:/kef/host/speakerStatus", "itemWithValue"),
       Topic("settings:/kef/play/physicalSource", "itemWithValue"),
       Topic("player:player/data", "itemWithValue"),
       Topic("kef:speedTest/status", "itemWithValue"),
       Topic("network:info", "itemWithValue"),
       Topic("kef:eqProfile/v2", "itemWithValue"),
       Topic("settings:/kef/host/modelName", "itemWithValue"),
       Topic("settings:/version", "itemWithValue"),
       Topic("settings:/deviceName", "itemWithValue") >>

PlayTimeTopic == Topic("player:player/data/playTime", "itemWithValue")

\* the payload _get_polling_queue(song_status, poll_song_status) posts to modifyQueue
SubscribePayload(song_status, poll_song_status) ==
    [subscribe |-> IF song_status THEN Append(FixedTopics, PlayTimeTopic) ELSE FixedTopics,
     unsubscribe |-> <<>>]

\* poll_speaker: self._get_polling_queue(poll_song_status=poll_song_status);
\* the parameter song_status of _get_polling_queue keeps its default False
PollSpeakerPayload(song_status, poll_song_status) ==
    SubscribePayload(FALSE, poll_song_status)

\* Slice keeping the last element: json_output[1:]
Slice_DropFirst(json_output) == SubSeq(json_output, 2, Len(json_output))

\* json_output[1:-1]
Slice(json_output) == SubSeq(json_output, 2, Len(json_output) - 1)

\* "{{{}}}".format(self.polling_queue)
QueueId(queue) ==
    IF queue = None THEN <<"{", "N", "o", "n", "e", "}">>
    ELSE <<"{">> \o queue.c \o <<"}">>

\* the transport deadline of the pollQueue request, in half seconds
PollDeadline2(timeout) == 2 * timeout + 1
PollDeadline2Async(timeout) == 2 * ASYNC_POLL_TIMEOUT + 1

\* CheckQueue without the test of the age of the queue
CheckQueue_NoStale(queue, polled, previous, song_status, t) ==
    IF queue = None THEN "new"
    ELSE IF polled = None THEN "TypeError"
    ELSE IF song_status # previous THEN "new"
    ELSE "keep"

\* KefConnector.poll_speaker, "check if it is necessary to get a new queue":
\* "new", "keep", or the exception raised while evaluating the condition
CheckQueue(queue, polled, previous, song_status, t) ==
    IF queue = None THEN "new"
    ELSE IF polled = None THEN "TypeError"
    ELSE IF t - polled.i > STALE THEN "new"
    ELSE IF song_status # previous THEN "new"
    ELSE "keep"

\* KefAsyncConnector.poll_speaker: the third operand reads
\* self._previous_polling_song_status, an attribute that is never set
CheckQueueAsync(queue, polled, previous, song_status, t) ==
    IF queue = None THEN "new"
    ELSE IF polled = None THEN "TypeError"
    ELSE IF t - polled.i > STALE THEN "new"
    ELSE "AttributeError"

ModifyQueueReq(payload) == [api |-> "modifyQueue", json |-> payload]
PollQueueReq(queueId, timeout, deadline2) ==
    [api |-> "pollQueue", queueId |-> queueId, timeout |-> timeout, deadline2 |-> deadline2]
GetDataReq == [api |-> "getData", path |-> "player:player/data"]

\* the pollQueue request poll_speaker of connector class i sends for self.polling_queue
PollRequestAs(i, queue, timeout) ==
    PollQueueReq(QueueId(queue), timeout,
                 IF i = "sync" THEN PollDeadline2(timeout) ELSE PollDeadline2Async(timeout))

PollRequest(queue, timeout) == PollRequestAs(impl, queue, timeout)

HandleState ==
    [polling_queue |-> polling_queue, last_polled |-> last_polled,
     previous |-> _previous_poll_song_status]

NoEvents == [keys |-> <<>>, val |-> EmptyMap]

\* a caller that is not inside poll_speaker.  pc, the arguments, json_output, events
\* and ret are the call's position and locals; the other fields record the call's
\* history: clock readings (t_check, t_response), the handle state and its creator
\* at entry (pre, pre_created_by), the outcome of the queue check, the requests sent,
\* the subscribe response, the request that raised, and (repoll_of) the queue id of
\* the previous call when this call repeats a call whose long poll timed out.
IdleCall ==
    [pc |-> "idle", timeout |-> 10, song_status |-> FALSE, poll_song_status |-> FALSE,
     t_check |-> 0, pre |-> [polling_queue |-> None, last_polled |-> None, previous |-> FALSE],
     pre_created_by |-> None,
     check |-> "none", reqs |-> <<>>, sub_response |-> None, t_response |-> 0,
     failed_at |-> "none", raised |-> "none", outcome |-> "none",
     decoded |-> FALSE, json_output |-> <<>>, events |-> NoEvents, ret |-> None,
     repoll_of |-> None, prev_recent |-> FALSE]

\* volumes of the speaker (0 = muted)
Volumes == {0, 10, 20, 30, 40}

\* no mute() since the last other change of volume
NoMute == [op |-> "none", mutes |-> 0, before |-> None]

\* __init__: KefConnector reads the speaker's volume v into previous_volume,
\* KefAsyncConnector stores 15
InitVolume(i, v) ==
    /\ volume = v
    /\ previous_volume = IF i = "sync" THEN v ELSE ASYNC_PREVIOUS_VOLUME
    /\ mute_hist = NoMute

\* __init__ of KefConnector / KefAsyncConnector
Init ==
    /\ impl \in {"sync", "async"}
    /\ now = 0
    /\ polling_queue = None
    /\ last_polled = None
    /\ _previous_poll_song_status = FALSE
    /\ created_by = None
    /\ call = [c \in Callers |-> IF c = 1 THEN IdleCall ELSE [IdleCall EXCEPT !.pc = "off"]]
    /\ InitProfiles
    /\ InitVolume(impl, 20)

\* history: the queue id polled by the finished call k, when k ended in a timeout
\* of its long poll and the next call has the same arguments; None otherwise
RepollOf(k, timeout, song_status, poll_song_status) ==
    IF /\ k.failed_at = "poll" /\ k.raised = "Timeout"
       /\ k.timeout = timeout /\ k.song_status = song_status
       /\ k.poll_song_status = poll_song_status
    THEN Chars(k.reqs[Len(k.reqs)].queueId)
    ELSE None

\* history: the finished call k returned a record, had the flags of the next call,
\* and started at most 50 seconds before the next call
PrevRecent(k, song_status, poll_song_status) ==
    /\ k.pc = "done" /\ k.outcome = "ok"
    /\ k.song_status = song_status /\ k.poll_song_status = poll_song_status
    /\ now - k.t_check <= STALE

\* poll_speaker of connector class i from its entry to its first request
CallAs(i, c, timeout, song_status, poll_song_status) ==
    /\ call[c].pc \in {"idle", "done"}
    /\ LET check == IF i = "sync"
                    THEN CheckQueue(polling_queue, last_polled,
                                    _previous_poll_song_status, song_status, now)
                    ELSE CheckQueueAsync(polling_queue, last_polled,
                                         _previous_poll_song_status, song_status, now)
           entered == [IdleCall EXCEPT !.timeout = timeout, !.song_status = song_status,
                                       !.poll_song_status = poll_song_status,
                                       !.t_check = now, !.pre = HandleState,
                                       !.pre_created_by = created_by, !.check = check,
                                       !.repoll_of = RepollOf(call[c], timeout, song_status, poll_song_status),
                                       !.prev_recent = PrevRecent(call[c], song_status, poll_song_status)]
       IN  /\ _previous_poll_song_status' =
                 IF check = "new" /\ i = "sync" THEN song_status
                 ELSE _previous_poll_song_status
           /\ call' = [call EXCEPT ![c] =
                 IF check = "new" THEN
                     [entered EXCEPT !.pc = "subscribing",
                         !.reqs = <<ModifyQueueReq(PollSpeakerPayload(song_status, poll_song_status))>>]
                 ELSE IF check = "keep" THEN
                     [entered EXCEPT !.pc = "polling",
                         !.reqs = <<PollRequestAs(i, polling_queue, timeout)>>]
                 ELSE [entered EXCEPT !.pc = "done", !.outcome = check]]
    /\ UNCHANGED <<volvars, pmvars, impl, now, polling_queue, last_polled, created_by>>

Call(c, timeout, song_status, poll_song_status) ==
    CallAs(impl, c, timeout, song_status, poll_song_status)

\* SubscribeOkAs testing the handle again before the write: a handle stored by
\* another call since this call's check is kept, and polled
SubscribeOkAs_KeepNewer(i, c, json_output) ==
    /\ call[c].pc = "subscribing"
    /\ LET keep == polling_queue # call[c].pre.polling_queue IN
          /\ polling_queue' = IF keep THEN polling_queue ELSE Chars(Slice(json_output))
          /\ last_polled' = IF keep THEN last_polled ELSE JInt(now)
          /\ created_by' = IF keep THEN created_by
                           ELSE Creation(call[c].song_status, call[c].poll_song_status, json_output, now)
    /\ call' = [call EXCEPT ![c].pc = "polling",
                            ![c].sub_response = Chars(json_output),
                            ![c].t_response = now,
                            ![c].reqs = Append(@, PollRequestAs(i, polling_queue', call[c].timeout))]
    /\ UNCHANGED <<volvars, pmvars, impl, now, _previous_poll_song_status>>

\* the modifyQueue request returns json_output: the rest of _get_polling_queue,
\* then poll_speaker of connector class i up to its pollQueue request
SubscribeOkAs(i, c, json_output) ==
    /\ call[c].pc = "subscribing"
    /\ polling_queue' = Chars(Slice(json_output))
    /\ last_polled' = JInt(now)
    /\ created_by' = Creation(call[c].song_status, call[c].poll_song_status, json_output, now)
    /\ call' = [call EXCEPT ![c].pc = "polling",
                            ![c].sub_response = Chars(json_output),
                            ![c].t_response = now,
                            ![c].reqs = Append(@, PollRequestAs(i, polling_queue', call[c].timeout))]
    /\ UNCHANGED <<volvars, pmvars, impl, now, _previous_poll_song_status>>

SubscribeOk(c, json_output) == SubscribeOkAs(impl, c, json_output)

\* SubscribeFail sending the modifyQueue request once more before giving up
SubscribeFail_Retry(c, exc) ==
    /\ call[c].pc = "subscribing"
    /\ call' = [call EXCEPT ![c] =
          IF Len(call[c].reqs) < 2
          THEN [call[c] EXCEPT !.reqs = Append(@, call[c].reqs[1])]
          ELSE [call[c] EXCEPT !.pc = "done", !.outcome = exc,
                               !.failed_at = "subscribe", !.raised = exc]]
    /\ UNCHANGED <<volvars, pmvars, impl, now, polling_queue, last_polled, _previous_poll_song_status, created_by>>

\* SubscribeFail swallowing the exception and going on to the pollQueue request
SubscribeFail_PollAnyway(c, exc) ==
    /\ call[c].pc = "subscribing"
    /\ call' = [call EXCEPT ![c].pc = "polling",
                            ![c].failed_at = "subscribe", ![c].raised = exc,
                            ![c].reqs = Append(@, PollRequest(polling_queue, call[c].timeout))]
    /\ UNCHANGED <<volvars, pmvars, impl, now, polling_queue, last_polled, _previous_poll_song_status, created_by>>

\* the modifyQueue request raises: the exception leaves poll_speaker
SubscribeFail(c, exc) ==
    /\ call[c].pc = "subscribing"
    /\ call' = [call EXCEPT ![c].pc = "done", ![c].outcome = exc,
                            ![c].failed_at = "subscribe", ![c].raised = exc]
    /\ UNCHANGED <<volvars, pmvars, impl, now, polling_queue, last_polled, _previous_poll_song_status, created_by>>

\* PollOk with parsed_events kept on the connector: the parse starts from the record
\* another caller's poll returned
PollOk_SharedRecord(c, json_output, fetched) ==
    /\ call[c].pc = "polling"
    /\ LET events == DedupeEvents(json_output)
           others == {d \in Callers \ {c} : call[d].ret.t = "obj"}
           kept == IF others = {} THEN EmptyMap ELSE call[CHOOSE d \in others : TRUE].ret.o
           r == ParseLoop(events, 1, kept, 0, fetched)
       IN  call' = [call EXCEPT ![c].pc = "done",
                                ![c].decoded = TRUE,
                                ![c].json_output = json_output,
                                ![c].events = events,
                                ![c].ret = r.ret,
                                ![c].outcome = IF IsExc(r.ret) THEN r.ret.e ELSE "ok",
                                ![c].reqs = IF r.gets > 0 THEN Append(@, GetDataReq) ELSE @]
    /\ UNCHANGED <<volvars, pmvars, impl, now, polling_queue, last_polled, _previous_poll_song_status, created_by>>

\* PollOk writing the time of the poll to last_polled
PollOk_Touch(c, json_output, fetched) ==
    /\ call[c].pc = "polling"
    /\ LET events == DedupeEvents(json_output)
           r == parse_events(events, fetched)
       IN  call' = [call EXCEPT ![c].pc = "done",
                                ![c].decoded = TRUE,
                                ![c].json_output = json_output,
                                ![c].events = events,
                                ![c].ret = r.ret,
                                ![c].outcome = IF IsExc(r.ret) THEN r.ret.e ELSE "ok",
                                ![c].reqs = IF r.gets > 0 THEN Append(@, GetDataReq) ELSE @]
    /\ last_polled' = JInt(now)
    /\ UNCHANGED <<volvars, pmvars, impl, now, polling_queue, _previous_poll_song_status, created_by>>

\* the pollQueue request returns json_output: events are deduplicated and parsed
PollOk(c, json_output, fetched) ==
    /\ call[c].pc = "polling"
    /\ LET events == DedupeEvents(json_output)
           r == parse_events(events, fetched)
       IN  call' = [call EXCEPT ![c].pc = "done",
                                ![c].decoded = TRUE,
                                ![c].json_output = json_output,
                                ![c].events = events,
                                ![c].ret = r.ret,
                                ![c].outcome = IF IsExc(r.ret) THEN r.ret.e ELSE "ok",
                                ![c].reqs = IF r.gets > 0 THEN Append(@, GetDataReq) ELSE @]
    /\ UNCHANGED <<volvars, pmvars, impl, now, polling_queue, last_polled, _previous_poll_song_status, created_by>>

\* PollFail turning every exception of the request into a ConnectionError
PollFail_Wrap(c, exc) ==
    /\ call[c].pc = "polling"
    /\ call' = [call EXCEPT ![c].pc = "done", ![c].outcome = "ConnectionError",
                            ![c].failed_at = "poll", ![c].raised = exc]
    /\ UNCHANGED <<volvars, pmvars, impl, now, polling_queue, last_polled, _previous_poll_song_status, created_by>>

\* PollFail dropping the queue when the request raises
PollFail_Invalidate(c, exc) ==
    /\ call[c].pc = "polling"
    /\ call' = [call EXCEPT ![c].pc = "done", ![c].outcome = exc,
                            ![c].failed_at = "poll", ![c].raised = exc]
    /\ polling_queue' = None
    /\ UNCHANGED <<volvars, pmvars, impl, now, last_polled, _previous_poll_song_status, created_by>>

\* the pollQueue request raises (read timeout, connection error)
PollFail(c, exc) ==
    /\ call[c].pc = "polling"
    /\ call' = [call EXCEPT ![c].pc = "done", ![c].outcome = exc,
                            ![c].failed_at = "poll", ![c].raised = exc]
    /\ UNCHANGED <<volvars, pmvars, impl, now, polling_queue, last_polled, _previous_poll_song_status, created_by>>

\* time passes
Tick(d) ==
    /\ now + d <= MaxClock
    /\ now' = now + d
    /\ UNCHANGED <<volvars, pmvars, impl, polling_queue, last_polled, _previous_poll_song_status, created_by, call>>

(***************************************************************************)
(* ProfileManager operations                                               *)
(***************************************************************************)
\* filepath.exists()
Exists(filepath) == profile_dir[filepath] # None

\* profile_exists(name), in the directory dir
profile_exists(dir, name) == dir[_get_profile_path(name)] # None

\* get_profile_count(), in the directory dir
get_profile_count(dir) == Cardinality({f \in DOMAIN dir : dir[f] # None})

\* what load_profile(name) returns or raises, in the directory dir
LoadFrom(dir, name) ==
    LET filepath == _get_profile_path(name) IN
        IF dir[filepath] = None THEN Raise("FileNotFoundError")
        ELSE IF "profile_data" \notin DOMAIN JsonLoad(dir[filepath]).o
             THEN Raise("ValueError")
        ELSE JsonLoad(dir[filepath]).o["profile_data"]

\* what get_profile_info(name) returns or raises, in the directory dir
get_profile_info(dir, name) ==
    LET filepath == _get_profile_path(name) IN
        IF dir[filepath] = None THEN Raise("FileNotFoundError")
        ELSE LET profile_file == JsonLoad(dir[filepath]) IN
             JObj("name" :> PyGet(profile_file, "name", None)
                  @@ "created_at" :> PyGet(profile_file, "created_at", None)
                  @@ "modified_at" :> PyGet(profile_file, "modified_at", None))

\* save_profile writing a new creation date on every save
save_profile_NewCreated(name, profile_data) ==
    LET filepath == _get_profile_path(name) IN
    /\ IF Strip(name) = <<>> \/ "kefEqProfileV2" \notin DOMAIN profile_data.o
       THEN /\ pm_op' = Op("save", name, <<>>, Raise("ValueError"))
            /\ UNCHANGED <<profile_dir, saved>>
       ELSE /\ profile_dir' = [profile_dir EXCEPT ![filepath] =
                    JsonDump(ProfileFile(name, now, now, profile_data))]
            /\ saved' = [saved EXCEPT ![name] = profile_data]
            /\ pm_op' = Op("save", name, <<>>, Chars(filepath))
    /\ UNCHANGED <<volvars, connvars, now>>

\* save_profile(name, profile_data)
save_profile(name, profile_data) ==
    LET filepath == _get_profile_path(name) IN
    /\ IF Strip(name) = <<>> \/ "kefEqProfileV2" \notin DOMAIN profile_data.o
       THEN /\ pm_op' = Op("save", name, <<>>, Raise("ValueError"))
            /\ UNCHANGED <<profile_dir, saved>>
       ELSE LET created_at ==
                    IF Exists(filepath)
                    THEN PyGet(JsonLoad(profile_dir[filepath]), "created_at", JInt(now)).i
                    ELSE now
            IN  /\ profile_dir' = [profile_dir EXCEPT ![filepath] =
                        JsonDump(ProfileFile(name, created_at, now, profile_data))]
                /\ saved' = [saved EXCEPT ![name] = profile_data]
                /\ pm_op' = Op("save", name, <<>>, Chars(filepath))
    /\ UNCHANGED <<volvars, connvars, now>>

\* load_profile(name)
load_profile(name) ==
    /\ pm_op' = Op("load", name, <<>>, LoadFrom(profile_dir, name))
    /\ UNCHANGED <<volvars, connvars, now, profile_dir, saved>>

\* delete_profile(name)
delete_profile(name) ==
    LET filepath == _get_profile_path(name) IN
    /\ profile_dir' = [profile_dir EXCEPT ![filepath] = None]
    /\ saved' = [saved EXCEPT ![name] = None]
    /\ pm_op' = Op("delete", name, <<>>, JBool(Exists(filepath)))
    /\ UNCHANGED <<volvars, connvars, now>>

\* rename_profile leaving the old file in place
rename_profile_KeepOld(old_name, new_name) ==
    LET old_path == _get_profile_path(old_name)
        new_path == _get_profile_path(new_name)
    IN
    /\ IF ~Exists(old_path)
       THEN /\ pm_op' = Op("rename", old_name, new_name, Raise("FileNotFoundError"))
            /\ UNCHANGED <<profile_dir, saved>>
       ELSE IF Exists(new_path)
       THEN /\ pm_op' = Op("rename", old_name, new_name, Raise("FileExistsError"))
            /\ UNCHANGED <<profile_dir, saved>>
       ELSE LET profile_file == JsonLoad(profile_dir[old_path]).o
                renamed == JObj(Put(Put(profile_file, "name", Chars(new_name)),
                                    "modified_at", JInt(now)))
            IN  /\ profile_dir' = [profile_dir EXCEPT ![new_path] = JsonDump(renamed)]
                /\ saved' = [saved EXCEPT ![old_name] = None, ![new_name] = Renamed]
                /\ pm_op' = Op("rename", old_name, new_name, JBool(TRUE))
    /\ UNCHANGED <<volvars, connvars, now>>

\* rename_profile(old_name, new_name)
rename_profile(old_name, new_name) ==
    LET old_path == _get_profile_path(old_name)
        new_path == _get_profile_path(new_name)
    IN
    /\ IF ~Exists(old_path)
       THEN /\ pm_op' = Op("rename", old_name, new_name, Raise("FileNotFoundError"))
            /\ UNCHANGED <<profile_dir, saved>>
       ELSE IF Exists(new_path)
       THEN /\ pm_op' = Op("rename", old_name, new_name, Raise("FileExistsError"))
            /\ UNCHANGED <<profile_dir, saved>>
       ELSE LET profile_file == JsonLoad(profile_dir[old_path]).o
                renamed == JObj(Put(Put(profile_file, "name", Chars(new_name)),
                                    "modified_at", JInt(now)))
            IN  /\ profile_dir' = [profile_dir EXCEPT ![new_path] = JsonDump(renamed),
                                                      ![old_path] = None]
                /\ saved' = [saved EXCEPT ![old_name] = None, ![new_name] = Renamed]
                /\ pm_op' = Op("rename", old_name, new_name, JBool(TRUE))
    /\ UNCHANGED <<volvars, connvars, now>>

NextProfile ==
    \/ \E name \in Names, profile_data \in ProfileDatas : save_profile(name, profile_data)
    \/ \E name \in Names : load_profile(name)
    \/ \E name \in Names : delete_profile(name)
    \/ \E old_name \in Names, new_name \in Names : rename_profile(old_name, new_name)
    \/ Tick(40)

\* a ProfileManager alone: the connector stays as constructed
InitProfile == Init /\ impl = "sync"

SpecProfile == InitProfile /\ [][NextProfile]_vars

(***************************************************************************)
(* mute / unmute                                                           *)
(***************************************************************************)
\* mute(): the speaker's volume is read into previous_volume, then set to 0.
\* History: the first mute() after another change of volume records the volume
\* it found.
mute ==
    /\ mute_hist.mutes < MaxMutes
    /\ previous_volume' = volume
    /\ volume' = 0
    /\ mute_hist' = IF mute_hist.op = "mute"
                    THEN [mute_hist EXCEPT !.mutes = @ + 1]
                    ELSE [op |-> "mute", mutes |-> 1, before |-> JInt(volume)]
    /\ UNCHANGED <<connvars, pmvars, now>>

\* unmute(): the speaker's volume is set to previous_volume
unmute ==
    /\ volume' = previous_volume
    /\ mute_hist' = IF mute_hist.op = "mute" THEN [mute_hist EXCEPT !.op = "unmute"]
                    ELSE [NoMute EXCEPT !.op = "unmute"]
    /\ UNCHANGED <<connvars, pmvars, now, previous_volume>>

\* set_volume(v), or the volume changed at the speaker
set_volume(v) ==
    /\ volume' = v
    /\ mute_hist' = NoMute
    /\ UNCHANGED <<connvars, pmvars, now, previous_volume>>

NextMute ==
    \/ mute
    \/ unmute
    \/ \E v \in Volumes : set_volume(v)

\* a connector of either class on a speaker at any volume
InitMute ==
    /\ impl \in {"sync", "async"}
    /\ now = 0
    /\ polling_queue = None
    /\ last_polled = None
    /\ _previous_poll_song_status = FALSE
    /\ created_by = None
    /\ call = [c \in Callers |-> IF c = 1 THEN IdleCall ELSE [IdleCall EXCEPT !.pc = "off"]]
    /\ InitProfiles
    /\ \E v \in Volumes : InitVolume(impl, v)

SpecMute == InitMute /\ [][NextMute]_vars

(***************************************************************************)
(* The speaker's answers                                                   *)
(***************************************************************************)
SubscribeResponses == { <<"{", "a", "}">>, <<"{", "b", "}">> }
SubscribeErrors == {"ConnectionError"}
PollErrors == {"Timeout", "ConnectionError"}

\* an entry of a pollQueue response
Ev(path, itemValue) == JObj("path" :> JStr(path) @@ "itemValue" :> itemValue)
EvNoValue(path) == JObj("path" :> JStr(path))
\* a typed value {"type": tag, tag: payload}
Typed(tag, payload) == JObj("type" :> JStr(tag) @@ tag :> payload)

PlayerData ==
    JObj("state" :> JStr("playing")
         @@ "status" :> JObj("duration" :> JInt(180))
         @@ "trackRoles" :> JObj("title" :> JStr("T") @@ "icon" :> JStr("U")
               @@ "mediaData" :> JObj("metaData" :>
                     JObj("artist" :> JStr("A") @@ "album" :> JStr("B")))))
PlayerDataBare == JObj("state" :> JStr("stopped"))

EventPool ==
    { Ev("player:volume", Typed("i32_", JInt(42))),
      Ev("player:volume", Typed("string_", JStr("42"))),
      EvNoValue("player:volume"),
      Ev("settings:/mediaPlayer/mute", Typed("bool_", JBool(FALSE))),
      Ev("settings:/mediaPlayer/mute", Typed("bool_", JBool(TRUE))),
      Ev("player:player/data", PlayerData),
      Ev("player:player/data", PlayerDataBare),
      Ev("player:player/data", None),
      Ev("settings:/kef/play/physicalSource", Typed("kefPhysicalSource", JStr("wifi"))),
      Ev("player:player/data/playTime", Typed("i64_", JInt(1000))),
      Ev("settings:/kef/host/speakerStatus", Typed("kefSpeakerStatus", JStr("powerOn"))),
      Ev("settings:/deviceName", Typed("string_", JStr("KEF"))),
      Ev("network:info", Typed("string_", JStr("up"))),
      EvNoValue("playlists:pq/getitems") }

Responses == UNION { [1..n -> EventPool] : n \in 0..MaxEvents }

SampleResponses ==
    { <<>>,
      << Ev("player:volume", Typed("i32_", JInt(42))) >>,
      << Ev("settings:/mediaPlayer/mute", Typed("bool_", JBool(FALSE))),
         Ev("settings:/mediaPlayer/mute", Typed("bool_", JBool(TRUE))) >>,
      << EvNoValue("playlists:pq/getitems"), Ev("player:player/data", PlayerData) >>,
      << EvNoValue("player:volume") >> }

Fetched == { PlayerData, Raise("ConnectionError") }

Next ==
    \/ \E c \in Callers, timeout \in Timeouts, song_status \in BOOLEAN, poll_song_status \in BOOLEAN :
          Call(c, timeout, song_status, poll_song_status)
    \/ \E c \in Callers, json_output \in SubscribeResponses : SubscribeOk(c, json_output)
    \/ \E c \in Callers, exc \in SubscribeErrors : SubscribeFail(c, exc)
    \/ \E c \in Callers, json_output \in SampleResponses, fetched \in Fetched :
          PollOk(c, json_output, fetched)
    \/ \E c \in Callers, exc \in PollErrors : PollFail(c, exc)
    \/ \E d \in TickSteps : Tick(d)

Spec == Init /\ [][Next]_vars

\* decoding alone: one caller polling with default arguments, no time passing,
\* every response list up to MaxEvents entries
NextDecode ==
    \/ Call(1, 10, FALSE, FALSE)
    \/ SubscribeOk(1, <<"{", "a", "}">>)
    \/ \E json_output \in Responses, fetched \in Fetched : PollOk(1, json_output, fetched)

SpecDecode == Init /\ [][NextDecode]_vars

\* the mappings with the keys of some subset of the keys of f
SubMaps(f) == {[k \in S |-> f[k]] : S \in SUBSET DOMAIN f}

\* player data with any of the nested levels and leaf keys absent; albumArtist,
\* when present, is a name or the empty string
MetaDatas ==
    UNION { SubMaps("artist" :> JStr("A") @@ "album" :> JStr("B")
                    @@ "albumArtist" :> aa @@ "serviceID" :> JStr("S"))
            : aa \in {JStr("AA"), JStr("")} }
MediaDatas == {EmptyMap} \cup {"metaData" :> JObj(m) : m \in MetaDatas}
TrackRoles ==
    { t @@ md : t \in SubMaps("title" :> JStr("T") @@ "icon" :> JStr("U")),
                md \in {EmptyMap} \cup {"mediaData" :> JObj(m) : m \in MediaDatas} }
SongData == {EmptyDict} \cup {JObj("trackRoles" :> JObj(tr)) : tr \in TrackRoles}

\* get_song_information alone: one caller polling, the response is one
\* player:player/data event
NextSong ==
    \/ Call(1, 10, FALSE, FALSE)
    \/ SubscribeOk(1, <<"{", "a", "}">>)
    \/ \E song_data \in SongData, fetched \in Fetched :
          PollOk(1, <<Ev("player:player/data", song_data)>>, fetched)

SpecSong == Init /\ [][NextSong]_vars

\* two callers on one connector, calls interleaving at their requests: default
\* arguments, no time passing
InitConc ==
    /\ impl \in {"sync", "async"}
    /\ now = 0
    /\ polling_queue = None
    /\ last_polled = None
    /\ _previous_poll_song_status = FALSE
    /\ created_by = None
    /\ call = [c \in Callers |-> IdleCall]
    /\ InitProfiles
    /\ InitVolume(impl, 20)

NextConc ==
    \/ \E c \in Callers : Call(c, 10, FALSE, FALSE)
    \/ \E c \in Callers, json_output \in SubscribeResponses : SubscribeOk(c, json_output)
    \/ \E c \in Callers, exc \in SubscribeErrors : SubscribeFail(c, exc)
    \/ \E c \in Callers, json_output \in SampleResponses, fetched \in Fetched :
          PollOk(c, json_output, fetched)
    \/ \E c \in Callers, exc \in PollErrors : PollFail(c, exc)

SpecConc == InitConc /\ [][NextConc]_vars

\* one caller that keeps calling poll_speaker while time advances and every
\* request succeeds: the steps of the clock between two requests
LiveSteps == {13}
LiveResponses == { << Ev("player:volume", Typed("i32_", JInt(42))) >> }

LiveCall == \E song_status \in BOOLEAN : Call(1, 10, song_status, FALSE)
LiveSubscribe == \E json_output \in SubscribeResponses : SubscribeOk(1, json_output)
LivePoll == \E json_output \in LiveResponses : PollOk(1, json_output, PlayerData)
LiveTick == \E d \in LiveSteps : Tick(d)

NextLive == LiveCall \/ LiveSubscribe \/ LivePoll \/ LiveTick

InitLive == Init /\ impl = "sync"

\* the caller calls again whenever it is outside poll_speaker, every request is
\* answered, and the clock advances as long as it is below MaxClock
SpecLive ==
    /\ InitLive
    /\ [][NextLive]_vars
    /\ WF_vars(LiveCall) /\ WF_vars(LiveSubscribe) /\ WF_vars(LivePoll) /\ WF_vars(LiveTick)

TypeOK ==
    /\ impl \in {"sync", "async"}
    /\ now \in 0..(MaxClock + 1)
    /\ \A c \in Callers : call[c].pc \in {"off", "idle", "subscribing", "polling", "done"}
    /\ DOMAIN profile_dir = FileNames
    /\ DOMAIN saved = Names
    /\ pm_op.op \in {"none", "save", "load", "delete", "rename"}
    /\ volume \in Volumes \cup {ASYNC_PREVIOUS_VOLUME}
    /\ mute_hist.mutes \in 0..MaxMutes

(***************************************************************************)
(* Properties                                                              *)
(***************************************************************************)
Started(k) == k.pc \in {"subscribing", "polling", "done"}
ReqsOf(k, api) == SelectSeq(k.reqs, LAMBDA r : r.api = api)
SameFlags(k, creator) ==
    /\ creator # None
    /\ creator.song_status = k.song_status
    /\ creator.poll_song_status = k.poll_song_status
\* seconds between the creation of the handle found at entry and the queue check
AgeAtCheck(k) == k.t_check - k.pre.last_polled.i

\* C1: in KefConnector, once a call has created a handle, a further call with the
\* same flags as that call, made while now - last_polled <= 50, sends no
\* modifyQueue request and exactly one pollQueue request, for the existing handle id.
C1_FreshHandleReused ==
    impl = "sync" =>
        \A c \in Callers : LET k == call[c] IN
            ( /\ Started(k)
              /\ k.pre.polling_queue # None
              /\ SameFlags(k, k.pre_created_by)
              /\ AgeAtCheck(k) <= STALE )
            => /\ ReqsOf(k, "modifyQueue") = <<>>
               /\ Len(ReqsOf(k, "pollQueue")) = 1
               /\ ReqsOf(k, "pollQueue")[1].queueId = <<"{">> \o k.pre.polling_queue.c \o <<"}">>

\* what is left of a subscribe response without its first and last element
Interior(response) == [i \in 1..(Len(response) - 2) |-> response[i + 1]]

\* C2: a call made more than 50 seconds after the handle was created sends exactly
\* one subscribe request, first; when that request is answered, the stored id is the
\* id of the answer, the stored creation time is the time of the answer, and the
\* call's pollQueue request carries the new id and not the old one.
C2_StaleHandleRecreated ==
    \A c \in Callers : LET k == call[c] IN
        ( /\ Started(k)
          /\ k.pre.polling_queue # None
          /\ AgeAtCheck(k) > STALE )
        => /\ Len(ReqsOf(k, "modifyQueue")) = 1
           /\ k.reqs[1].api = "modifyQueue"
           /\ k.sub_response # None =>
                 /\ polling_queue = Chars(Interior(k.sub_response.c))
                 /\ last_polled = JInt(k.t_response)
                 /\ Len(k.reqs) >= 2
                 /\ Len(ReqsOf(k, "pollQueue")) = 1
                 /\ k.reqs[2].api = "pollQueue"
                 /\ k.reqs[2].queueId = <<"{">> \o Interior(k.sub_response.c) \o <<"}">>
                 /\ (polling_queue # k.pre.polling_queue
                        => k.reqs[2].queueId # <<"{">> \o k.pre.polling_queue.c \o <<"}">>)

\* C2 happens: a stale handle was replaced by one with another id, and the call returned
C2_Witness ==
    \E c \in Callers : LET k == call[c] IN
        /\ k.pc = "done" /\ k.outcome = "ok"
        /\ k.pre.polling_queue # None
        /\ AgeAtCheck(k) > STALE
        /\ k.sub_response # None
        /\ polling_queue # k.pre.polling_queue
        /\ k.t_response > k.t_check

\* C3: a call whose poll_song_status differs from that of the call that created
\* the handle sends a subscribe request first, even within 50 seconds.
C3_FlagChangeRecreates ==
    impl = "sync" =>
        \A c \in Callers : LET k == call[c] IN
            ( /\ Started(k)
              /\ k.pre.polling_queue # None
              /\ k.pre_created_by # None
              /\ k.poll_song_status # k.pre_created_by.poll_song_status )
            => /\ k.reqs # <<>>
               /\ k.reqs[1].api = "modifyQueue"

\* C4: every subscribe request lists the 18 fixed topics, followed by
\* player:player/data/playTime exactly when the caller asked for song progress.
C4_SubscribedTopics ==
    /\ Len(FixedTopics) = 18
    /\ \A c \in Callers : LET k == call[c] IN
          \A i \in 1..Len(k.reqs) :
              k.reqs[i].api = "modifyQueue" =>
                  k.reqs[i].json.subscribe =
                      IF k.poll_song_status THEN FixedTopics \o <<PlayTimeTopic>>
                      ELSE FixedTopics

PathAt(json_output, i) == json_output[i].o["path"].s
Paths(json_output) == {PathAt(json_output, i) : i \in 1..Len(json_output)}
LastIndex(json_output, path) ==
    CHOOSE i \in 1..Len(json_output) :
        /\ PathAt(json_output, i) = path
        /\ \A j \in (i + 1)..Len(json_output) : PathAt(json_output, j) # path

MuteEv(b) == Ev("settings:/mediaPlayer/mute", Typed("bool_", JBool(b)))

\* C5: the deduplicated event map has exactly one entry per distinct topic of the
\* response, holding the itemValue of the topic's last occurrence ("updated" when
\* that occurrence has none); mute false then true decodes to mute == true.
C5_DedupLastWins ==
    \A c \in Callers : LET k == call[c] IN
        k.decoded =>
            /\ DOMAIN k.events.val = Paths(k.json_output)
            /\ {k.events.keys[i] : i \in 1..Len(k.events.keys)} = Paths(k.json_output)
            /\ Len(k.events.keys) = Cardinality(Paths(k.json_output))
            /\ \A path \in Paths(k.json_output) :
                  LET e == k.json_output[LastIndex(k.json_output, path)] IN
                      k.events.val[path] =
                          IF "itemValue" \in DOMAIN e.o THEN e.o["itemValue"]
                          ELSE JStr("updated")
            /\ (k.json_output = <<MuteEv(FALSE), MuteEv(TRUE)>>
                   => k.ret = JObj("mute" :> JBool(TRUE)))

\* C5 happens: a response with the same topic twice, with different values, was decoded
C5_Witness ==
    \E c \in Callers : LET k == call[c] IN
        /\ k.decoded
        /\ k.json_output = <<MuteEv(FALSE), MuteEv(TRUE)>>
        /\ k.events.val["settings:/mediaPlayer/mute"] = Typed("bool_", JBool(TRUE))

\* the fields of the record that belong to a topic
FieldsOf(path) ==
    CASE path = "settings:/kef/play/physicalSource" -> {"source"}
      [] path = "player:player/data/playTime"       -> {"song_status"}
      [] path = "player:volume"                     -> {"volume"}
      [] path = "player:player/data"                -> {"song_info", "song_length", "status"}
      [] path = "settings:/kef/host/speakerStatus"  -> {"speaker_status"}
      [] path = "settings:/deviceName"              -> {"device_name"}
      [] path = "settings:/mediaPlayer/mute"        -> {"mute"}
      [] OTHER                                      -> {}
RecognizedTopics ==
    {"settings:/kef/play/physicalSource", "player:player/data/playTime", "player:volume",
     "player:player/data", "settings:/kef/host/speakerStatus", "settings:/deviceName",
     "settings:/mediaPlayer/mute"}

\* the record has the fields of the recognized topics of the map, and of no other
RecognizedFieldsExact(record, topics) ==
    /\ \A path \in topics \cap RecognizedTopics : FieldsOf(path) \subseteq DOMAIN record
    /\ \A path \in RecognizedTopics \ topics : FieldsOf(path) \cap DOMAIN record = {}

\* every unrecognized topic of the map is under "other", with its value
OthersKept(record, val) ==
    \A path \in (DOMAIN val) \ RecognizedTopics :
        /\ "other" \in DOMAIN record
        /\ record["other"].t = "obj"
        /\ path \in DOMAIN record["other"].o
        /\ record["other"].o[path] = val[path]

\* C6: for every deduplicated event map parse_events returns a record in which each
\* recognized topic of the map has its field, no field of an absent recognized
\* topic appears, and each unrecognized topic is under other with its value.
C6_DecodeComplete ==
    \A c \in Callers : LET k == call[c] IN
        k.decoded =>
            /\ ~IsExc(k.ret)
            /\ RecognizedFieldsExact(k.ret.o, DOMAIN k.events.val)
            /\ OthersKept(k.ret.o, k.events.val)

RecognizedOnly(json_output) ==
    json_output # <<>> /\ Paths(json_output) \subseteq RecognizedTopics
Volume42 == Ev("player:volume", Typed("i32_", JInt(42)))

\* C7 as stated: for a response with recognized topics only, the record returned
\* has the fields of the topics present (volume == 42 for a volume event of 42), no
\* other recognized field, and an other bucket equal to the empty mapping.
C7_OtherBucketEmpty ==
    \A c \in Callers : LET k == call[c] IN
        (k.decoded /\ RecognizedOnly(k.json_output) /\ ~IsExc(k.ret)) =>
            /\ RecognizedFieldsExact(k.ret.o, Paths(k.json_output))
            /\ (k.json_output = <<Volume42>> => k.ret.o["volume"] = JInt(42))
            /\ "other" \in DOMAIN k.ret.o
            /\ k.ret.o["other"] = EmptyDict

\* C7 amended: for a response with recognized topics only, a record returned has
\* exactly the fields of the topics present (volume == 42 for a volume event of 42)
\* and no other key: the other bucket exists only when an unrecognized topic occurred.
C7_NoOtherKey ==
    \A c \in Callers : LET k == call[c] IN
        (k.decoded /\ Paths(k.json_output) \subseteq RecognizedTopics /\ ~IsExc(k.ret)) =>
            /\ DOMAIN k.ret.o = UNION {FieldsOf(path) : path \in Paths(k.json_output)}
            /\ (k.json_output = <<Volume42>> => k.ret = JObj("volume" :> JInt(42)))

\* C7 happens: the single volume event of 42 was decoded and returned
C7_Witness ==
    \E c \in Callers : LET k == call[c] IN
        /\ k.pc = "done" /\ k.decoded /\ k.outcome = "ok"
        /\ k.json_output = <<Volume42>>
        /\ k.ret = JObj("volume" :> JInt(42))

\* C8: in KefConnector a call that does not recreate the handle leaves polling_queue,
\* last_polled and _previous_poll_song_status as they were, however its pollQueue
\* request ends; and the call that repeats a call whose long poll timed out, within
\* the staleness window, sends no subscribe request and polls the same queue id.
C8_PollLeavesHandle ==
    \A c \in Callers : LET k == call[c] IN
        /\ (k.check = "keep" /\ k.pc \in {"polling", "done"}) => HandleState = k.pre
        /\ ( /\ impl = "sync"
             /\ Started(k)
             /\ k.repoll_of # None
             /\ AgeAtCheck(k) <= STALE )
           => /\ ReqsOf(k, "modifyQueue") = <<>>
              /\ k.reqs # <<>>
              /\ k.reqs[1].api = "pollQueue"
              /\ Chars(k.reqs[1].queueId) = k.repoll_of

\* C8 happens: a long poll timed out, the call was repeated and kept the handle,
\* and its long poll timed out again
C8_Witness ==
    \E c \in Callers : LET k == call[c] IN
        /\ impl = "sync"
        /\ k.repoll_of # None
        /\ k.check = "keep"
        /\ k.pc = "done" /\ k.failed_at = "poll" /\ k.raised = "Timeout"
        /\ HandleState = k.pre

\* C9: a call sends at most one subscribe request and at most one pollQueue request,
\* the subscribe first; a request that raises is the call's last request and its
\* exception is the outcome of the call.
C9_NoRetry ==
    \A c \in Callers : LET k == call[c] IN
        /\ Len(ReqsOf(k, "modifyQueue")) <= 1
        /\ Len(ReqsOf(k, "pollQueue")) <= 1
        /\ \A i, j \in 1..Len(k.reqs) :
              (k.reqs[i].api = "modifyQueue" /\ k.reqs[j].api = "pollQueue") => i < j
        /\ k.failed_at = "subscribe" =>
              /\ k.pc = "done" /\ k.outcome = k.raised
              /\ Len(k.reqs) = 1 /\ k.reqs[1].api = "modifyQueue"
        /\ k.failed_at = "poll" =>
              /\ k.pc = "done" /\ k.outcome = k.raised
              /\ k.reqs[Len(k.reqs)].api = "pollQueue"

\* C9 happens: the subscribe request was answered and the pollQueue request raised
C9_Witness ==
    \E c \in Callers : LET k == call[c] IN
        /\ k.failed_at = "poll" /\ k.raised = "ConnectionError"
        /\ Len(k.reqs) = 2
        /\ k.outcome = "ConnectionError"

\* the value of a recognized topic is malformed: not a mapping
Malformed(value) == value.t # "obj"

\* C10: when a recognized topic of the event map carries a malformed value,
\* parse_events raises nothing and still delivers the fields of the other topics.
C10_NoAbort ==
    \A c \in Callers : LET k == call[c] IN
        ( /\ k.decoded
          /\ \E path \in (DOMAIN k.events.val) \cap RecognizedTopics :
                Malformed(k.events.val[path]) )
        => /\ ~IsExc(k.ret)
           /\ \A path \in (DOMAIN k.events.val) \cap RecognizedTopics :
                 ~Malformed(k.events.val[path]) => FieldsOf(path) \subseteq DOMAIN k.ret.o
           /\ OthersKept(k.ret.o, k.events.val)

\* the fields a response can put into the record
FieldsFor(json_output) ==
    UNION {FieldsOf(path) : path \in Paths(json_output)}
        \cup (IF Paths(json_output) \subseteq RecognizedTopics THEN {} ELSE {"other"})

\* C11: the record a poll returns depends on the response of that poll only: two
\* polls that got the same response, after whatever earlier polls, both return or
\* both raise, and return equal records; a record has no field of a topic that is
\* missing from its own response, and its other bucket holds topics of its own
\* response only.
C11_RecordFromResponse ==
    /\ \A c, d \in Callers : LET k == call[c] m == call[d] IN
          (k.decoded /\ m.decoded /\ k.json_output = m.json_output) =>
              /\ IsExc(k.ret) <=> IsExc(m.ret)
              /\ (~IsExc(k.ret) => k.ret = m.ret)
    /\ \A c \in Callers : LET k == call[c] IN
          (k.decoded /\ ~IsExc(k.ret)) =>
              /\ DOMAIN k.ret.o \subseteq FieldsFor(k.json_output)
              /\ "other" \in DOMAIN k.ret.o =>
                    DOMAIN k.ret.o["other"].o \subseteq Paths(k.json_output)

\* C11 happens: one caller's poll returned a record with the volume, and after it
\* another caller's poll got the empty response and returned the empty record
C11_Witness ==
    \E c, d \in Callers :
        /\ c # d
        /\ call[c].decoded /\ call[c].ret = JObj("volume" :> JInt(42))
        /\ call[d].decoded /\ call[d].json_output = <<>> /\ call[d].ret = EmptyDict
        /\ call[d].pre.polling_queue # None

\* C12: every pollQueue request carries the caller's timeout as its long-poll
\* duration and is sent with a transport deadline of that timeout plus half a
\* second, which is later than the long-poll duration.
C12_DeadlineAfterTimeout ==
    \A c \in Callers : LET k == call[c] IN
        \A i \in 1..Len(k.reqs) :
            k.reqs[i].api = "pollQueue" =>
                /\ k.reqs[i].timeout = k.timeout
                /\ k.reqs[i].deadline2 = 2 * k.timeout + 1
                /\ k.reqs[i].deadline2 > 2 * k.reqs[i].timeout

BraceDelimited(response) ==
    Len(response) >= 2 /\ response[1] = "{" /\ response[Len(response)] = "}"

\* the answer of the most recent successful subscribe when call k sent its pollQueue
\* request: the call's own, or the one that created the handle the call kept
SubscribedAs(k) ==
    IF k.sub_response # None THEN k.sub_response.c ELSE k.pre_created_by.response.c

\* C13: the stored id is the subscribe response without its first and last element,
\* every pollQueue request sends "{" + stored id + "}", and for a response in braces
\* that queueId is the raw response of the most recent successful subscribe.
C13_StripThenWrap ==
    /\ created_by # None => polling_queue = Chars(Interior(created_by.response.c))
    /\ \A c \in Callers : LET k == call[c] IN
          \A i \in 1..Len(k.reqs) :
              k.reqs[i].api = "pollQueue" =>
                  /\ k.reqs[i].queueId = <<"{">> \o Interior(SubscribedAs(k)) \o <<"}">>
                  /\ BraceDelimited(SubscribedAs(k)) => k.reqs[i].queueId = SubscribedAs(k)

\* C13 happens: a call kept a handle created by an earlier call and polled the raw
\* response that call had got
C13_Witness ==
    \E c \in Callers : LET k == call[c] IN
        /\ k.check = "keep" /\ k.pc = "done" /\ k.outcome = "ok"
        /\ k.pre_created_by # None
        /\ BraceDelimited(k.pre_created_by.response.c)
        /\ k.reqs[1].api = "pollQueue"
        /\ k.reqs[1].queueId = k.pre_created_by.response.c

\* the steps of KefConnector
SyncNext ==
    \/ \E c \in Callers, timeout \in Timeouts, song_status \in BOOLEAN, poll_song_status \in BOOLEAN :
          CallAs("sync", c, timeout, song_status, poll_song_status)
    \/ \E c \in Callers, json_output \in SubscribeResponses : SubscribeOkAs("sync", c, json_output)
    \/ \E c \in Callers, exc \in SubscribeErrors : SubscribeFail(c, exc)
    \/ \E c \in Callers, json_output \in SampleResponses, fetched \in Fetched :
          PollOk(c, json_output, fetched)
    \/ \E c \in Callers, exc \in PollErrors : PollFail(c, exc)
    \/ \E d \in TickSteps : Tick(d)

\* C14: KefAsyncConnector.poll_speaker obeys the contract of KefConnector.poll_speaker:
\* from the same handle state, with the same arguments, clock reading and answer,
\* every step of either connector sends the requests, leaves the handle state and
\* gives the record or error that the step of KefConnector does.
C14_AsyncAsSync == [][SyncNext]_vars

\* C15: the recreation of the handle is a check followed, after the subscribe
\* request, by a write that does not look at the handle again: whenever a call's
\* subscribe request is answered, the stored id becomes the id of that answer,
\* whatever another call stored since the check, and no request of the call
\* unsubscribes anything.  So of two calls that both found no handle and both
\* subscribed, the handle stored is that of the later answer and the other
\* subscription is abandoned.
C15_LastWriteWins ==
    [][\A c \in Callers :
          (call[c].pc = "subscribing" /\ call'[c].pc = "polling") =>
              /\ call[c].check = "new"
              /\ polling_queue' = Chars(Interior(call'[c].sub_response.c))
              /\ last_polled' = JInt(call'[c].t_response)
              /\ \A i \in 1..Len(call'[c].reqs) :
                    call'[c].reqs[i].api = "modifyQueue" =>
                        call'[c].reqs[i].json.unsubscribe = <<>>]_vars

\* C15 happens: two calls found no handle, both subscribed and got different ids;
\* one id is stored, the other is polled by its call and stored nowhere
C15_Witness ==
    \E c, d \in Callers :
        /\ c # d
        /\ call[c].check = "new" /\ call[c].pre.polling_queue = None
        /\ call[d].check = "new" /\ call[d].pre.polling_queue = None
        /\ call[c].sub_response # None /\ call[d].sub_response # None
        /\ call[c].sub_response # call[d].sub_response
        /\ polling_queue = Chars(Interior(call[d].sub_response.c))
        /\ polling_queue # Chars(Interior(call[c].sub_response.c))
        /\ call[c].reqs[2].api = "pollQueue"
        /\ call[c].reqs[2].queueId # QueueId(polling_queue)

\* the handle state call k creates when its subscribe request is answered
NewHandle(k) ==
    [polling_queue |-> Chars(Interior(k.sub_response.c)),
     last_polled |-> JInt(k.t_response),
     previous |-> k.song_status]

\* C16: after a call, polling_queue, last_polled and _previous_poll_song_status are
\* all as they were before the call or all those of the subscription the call
\* created; after a call whose subscribe request failed they are as before the call.
C16_WholesaleReplace ==
    \A c \in Callers : LET k == call[c] IN
        k.pc = "done" =>
            /\ \/ HandleState = k.pre
               \/ k.sub_response # None /\ HandleState = NewHandle(k)
            /\ k.failed_at = "subscribe" => HandleState = k.pre

\* C17: a call whose pollQueue request raises ends with an error, and the error of
\* a call whose request timed out differs from the error of a call whose request
\* could not connect.
C17_TimeoutDistinct ==
    /\ \A c \in Callers : LET k == call[c] IN
          k.failed_at = "poll" =>
              k.pc = "done" /\ ~k.decoded /\ k.outcome \notin {"ok", "none"}
    /\ \A c, d \in Callers : LET k == call[c] m == call[d] IN
          ( /\ k.failed_at = "poll" /\ k.raised = "Timeout"
            /\ m.failed_at = "poll" /\ m.raised = "ConnectionError" )
          => k.outcome # m.outcome

\* C17 happens: one caller's long poll timed out and another caller's could not connect
C17_Witness ==
    \E c, d \in Callers :
        /\ call[c].failed_at = "poll" /\ call[c].raised = "Timeout"
        /\ call[c].outcome = "Timeout"
        /\ call[d].failed_at = "poll" /\ call[d].raised = "ConnectionError"
        /\ call[d].outcome = "ConnectionError"

\* C18: decoding sends no request and writes no connector state: the requests of a
\* call are its subscribe and pollQueue requests only, and after the decoding the
\* handle state is the one the call found or created.
C18_DecodeSendsNothing ==
    \A c \in Callers : LET k == call[c] IN
        /\ \A i \in 1..Len(k.reqs) : k.reqs[i].api \in {"modifyQueue", "pollQueue"}
        /\ k.decoded =>
              polling_queue = IF k.sub_response # None
                              THEN Chars(Interior(k.sub_response.c))
                              ELSE k.pre.polling_queue

\* the value under the nested keys of path, null when a level or the key is absent
RECURSIVE At(_, _)
At(v, path) ==
    IF path = <<>> THEN v
    ELSE IF v.t = "obj" /\ Head(path) \in DOMAIN v.o THEN At(v.o[Head(path)], Tail(path))
    ELSE None

MetaPath(key) == <<"trackRoles", "mediaData", "metaData", key>>

\* call k decoded a single player:player/data event whose value is a mapping
SongPolled(k) ==
    /\ k.decoded
    /\ Len(k.json_output) = 1
    /\ PathAt(k.json_output, 1) = "player:player/data"
    /\ k.json_output[1].o["itemValue"].t = "obj"
SongDataOf(k) == k.json_output[1].o["itemValue"]

\* C19 as stated: get_song_information never fails and returns the six keys, each
\* with the value present in the player data, null when the key or a level above it
\* is absent.
C19_SixKeysAsPresent ==
    \A c \in Callers : LET k == call[c] IN
        SongPolled(k) =>
            /\ ~IsExc(k.ret)
            /\ k.ret.o["song_info"] =
                  JObj("title" :> At(SongDataOf(k), <<"trackRoles", "title">>)
                       @@ "artist" :> At(SongDataOf(k), MetaPath("artist"))
                       @@ "album" :> At(SongDataOf(k), MetaPath("album"))
                       @@ "album_artist" :> At(SongDataOf(k), MetaPath("albumArtist"))
                       @@ "cover_url" :> At(SongDataOf(k), <<"trackRoles", "icon">>)
                       @@ "service_id" :> At(SongDataOf(k), MetaPath("serviceID")))

\* C19 amended: get_song_information never fails and returns the six keys; title,
\* artist, album, cover_url and service_id have the value present in the player
\* data, null when absent; album_artist has the value of albumArtist when that is
\* present and not empty, and otherwise the value of artist (null when absent too).
C19_AlbumArtistFallsBack ==
    \A c \in Callers : LET k == call[c] IN
        SongPolled(k) =>
            /\ ~IsExc(k.ret)
            /\ k.ret.o["song_info"] =
                  JObj("title" :> At(SongDataOf(k), <<"trackRoles", "title">>)
                       @@ "artist" :> At(SongDataOf(k), MetaPath("artist"))
                       @@ "album" :> At(SongDataOf(k), MetaPath("album"))
                       @@ "album_artist" :>
                             (IF At(SongDataOf(k), MetaPath("albumArtist")) \in {None, JStr("")}
                              THEN At(SongDataOf(k), MetaPath("artist"))
                              ELSE At(SongDataOf(k), MetaPath("albumArtist")))
                       @@ "cover_url" :> At(SongDataOf(k), <<"trackRoles", "icon">>)
                       @@ "service_id" :> At(SongDataOf(k), MetaPath("serviceID")))

\* C19 happens: player data without title and without albumArtist, with an artist,
\* gave a record whose title is null and whose album_artist is the artist
C19_Witness ==
    \E c \in Callers : LET k == call[c] IN
        /\ SongPolled(k) /\ k.outcome = "ok"
        /\ At(SongDataOf(k), <<"trackRoles", "title">>) = None
        /\ At(SongDataOf(k), MetaPath("albumArtist")) = None
        /\ At(SongDataOf(k), MetaPath("artist")) = JStr("A")
        /\ k.ret.o["song_info"].o["title"] = None
        /\ k.ret.o["song_info"].o["album_artist"] = JStr("A")

\* C20: load_profile(name) returns the data of the last save_profile under that
\* name when no delete or rename under that name came after it, and raises
\* FileNotFoundError when nothing was saved under the name or it was deleted or
\* renamed away.
C20_SaveLoadRoundTrip ==
    pm_op.op = "load" =>
        /\ saved[pm_op.name] = None => pm_op.result = Raise("FileNotFoundError")
        /\ saved[pm_op.name] \in ProfileDatas => pm_op.result = saved[pm_op.name]

\* the step is the ProfileManager operation op
OpStep(op) == pm_op'.op = op /\ now' = now

\* C21: rename_profile(old, new) raises FileNotFoundError when old does not exist
\* and FileExistsError when new exists, and then leaves the directory as it was;
\* otherwise it returns True, old no longer exists and cannot be loaded, loading new
\* returns the data old had, and the number of profiles is unchanged.
C21_Rename ==
    [][OpStep("rename") =>
          LET old == pm_op'.name
              new == pm_op'.to
          IN  IF ~profile_exists(profile_dir, old)
              THEN pm_op'.result = Raise("FileNotFoundError") /\ profile_dir' = profile_dir
              ELSE IF profile_exists(profile_dir, new)
              THEN pm_op'.result = Raise("FileExistsError") /\ profile_dir' = profile_dir
              ELSE /\ pm_op'.result = JBool(TRUE)
                   /\ ~profile_exists(profile_dir', old)
                   /\ LoadFrom(profile_dir', old) = Raise("FileNotFoundError")
                   /\ LoadFrom(profile_dir', new) = LoadFrom(profile_dir, old)
                   /\ get_profile_count(profile_dir') = get_profile_count(profile_dir)]_vars

\* C21 happens: a profile was renamed while another profile existed; the new name
\* loads its data and the old name is gone
C21_Witness ==
    /\ pm_op.op = "rename" /\ pm_op.result = JBool(TRUE)
    /\ LoadFrom(profile_dir, pm_op.to) \in ProfileDatas
    /\ ~profile_exists(profile_dir, pm_op.name)
    /\ get_profile_count(profile_dir) = 2

\* C22: a save_profile under a name that exists keeps the created_at of the profile
\* and sets modified_at to the time of the save; a save under a name that does not
\* exist sets both to the time of the save.
C22_CreatedAtKept ==
    [][(OpStep("save") /\ ~IsExc(pm_op'.result)) =>
          LET name == pm_op'.name
              info == get_profile_info(profile_dir', name)
          IN  /\ ~IsExc(info)
              /\ info.o["modified_at"] = JInt(now)
              /\ info.o["created_at"] =
                    IF profile_exists(profile_dir, name)
                    THEN get_profile_info(profile_dir, name).o["created_at"]
                    ELSE JInt(now)]_vars

\* C22 happens: a profile saved again later has its first creation date and the
\* later modification date
C22_Witness ==
    /\ pm_op.op = "save" /\ ~IsExc(pm_op.result)
    /\ LET info == get_profile_info(profile_dir, pm_op.name) IN
          /\ info.o["created_at"] = JInt(0)
          /\ info.o["modified_at"] = JInt(now)
          /\ now > 0

\* C29: a save_profile, delete_profile or rename_profile on a non-blank name B
\* leaves load_profile(A) and profile_exists(A) as they were for every other
\* non-blank name A, and afterwards get_profile_count() is the number of names
\* under which a profile is saved.
C29_NamesIndependent ==
    [][((OpStep("save") \/ OpStep("delete") \/ OpStep("rename")) /\ Strip(pm_op'.name) # <<>>) =>
          /\ \A A \in Names \ {pm_op'.name, pm_op'.to} :
                Strip(A) # <<>> =>
                    /\ LoadFrom(profile_dir', A) = LoadFrom(profile_dir, A)
                    /\ profile_exists(profile_dir', A) = profile_exists(profile_dir, A)
          /\ get_profile_count(profile_dir') =
                Cardinality({name \in Names : saved'[name] # None})]_vars

\* seconds between the creation of the handle found at entry and the queue check,
\* by the history of the creation
SinceCreation(k) == k.t_check - k.pre_created_by.at

\* C23: in KefAsyncConnector a call made while a handle exists that is at most 50
\* seconds old raises nothing in the queue check, sends no subscribe request and
\* sends one pollQueue request, for the existing handle.
C23_AsyncFreshHandle ==
    impl = "async" =>
        \A c \in Callers : LET k == call[c] IN
            ( /\ Started(k)
              /\ k.pre.polling_queue # None
              /\ SinceCreation(k) <= STALE )
            => /\ k.check = "keep"
               /\ ReqsOf(k, "modifyQueue") = <<>>
               /\ Len(ReqsOf(k, "pollQueue")) = 1
               /\ ReqsOf(k, "pollQueue")[1].queueId = QueueId(k.pre.polling_queue)

C25_PollOnFreshHandle ==
    \A c \in Callers : LET k == call[c] IN
        \A i \in 1..Len(k.reqs) :
            k.reqs[i].api = "pollQueue" =>
                IF k.sub_response # None
                THEN /\ k.reqs[i].queueId = QueueId(Chars(Interior(k.sub_response.c)))
                     /\ k.t_response >= k.t_check
                ELSE /\ k.pre.polling_queue # None
                     /\ k.pre_created_by # None
                     /\ k.reqs[i].queueId = QueueId(k.pre.polling_queue)
                     /\ SinceCreation(k) <= STALE

\* C25 happens: a call exactly 50 seconds after the creation kept the handle and polled it
C25_Witness ==
    \E c \in Callers : LET k == call[c] IN
        /\ k.check = "keep"
        /\ k.pre_created_by # None
        /\ SinceCreation(k) = STALE
        /\ k.reqs[1].api = "pollQueue"
        /\ k.reqs[1].queueId = QueueId(k.pre.polling_queue)

\* C26: no pollQueue request is sent without a handle: a call that finds no handle
\* sends a subscribe request first; a call whose subscribe request fails sends no
\* pollQueue request and, when it found no handle, leaves none; so the call after
\* it finds no handle and subscribes again.
C26_NoPollWithoutHandle ==
    \A c \in Callers : LET k == call[c] IN
        /\ \A i \in 1..Len(k.reqs) :
              k.reqs[i].api = "pollQueue" =>
                  /\ k.reqs[i].queueId # QueueId(None)
                  /\ k.sub_response # None \/ k.pre.polling_queue # None
        /\ (Started(k) /\ k.pre.polling_queue = None) =>
              /\ k.check = "new"
              /\ k.reqs[1].api = "modifyQueue"
        /\ k.failed_at = "subscribe" =>
              /\ k.pc = "done"
              /\ ReqsOf(k, "pollQueue") = <<>>
              /\ k.pre.polling_queue = None => polling_queue = None

\* C26 happens: after a call whose subscribe request failed (it left the flag it
\* wrote and no handle), the next call subscribed again, and failed again
C26_Witness ==
    \E c \in Callers : LET k == call[c] IN
        /\ k.pre.polling_queue = None
        /\ k.pre.previous = TRUE
        /\ k.reqs[1].api = "modifyQueue"
        /\ k.failed_at = "subscribe"
        /\ polling_queue = None

\* the creation times of the handles that become stale before the clock stops:
\* the readings of the clock that leave more than 50 seconds and one step below MaxClock
StaleInTime ==
    LET step == CHOOSE d \in LiveSteps : \A e \in LiveSteps : e <= d
    IN  {t \in 0..(MaxClock - STALE - step) : t % step = 0}

\* C27: when the caller keeps calling KefConnector.poll_speaker, time advances and
\* every request succeeds, every handle (created early enough to become stale on the
\* modelled clock) is eventually replaced by a handle created later, and every
\* step leaves the pollQueue requests of the call sent for the stored handle, at
\* most 50 seconds after its creation.
C27_HandlesReplaced ==
    /\ \A t \in StaleInTime :
          (created_by # None /\ created_by.at = t) ~> (created_by # None /\ created_by.at > t)
    /\ [][(\A i \in 1..Len(call[1].reqs) :
              call[1].reqs[i].api = "pollQueue" =>
                  LET issued == IF call[1].sub_response # None THEN call[1].t_response
                                ELSE call[1].t_check
                      created == IF call[1].sub_response # None THEN call[1].t_response
                                 ELSE call[1].pre_created_by.at
                  IN  /\ call[1].reqs[i].queueId = QueueId(polling_queue)
                      /\ created_by.at = created
                      /\ issued - created <= STALE)']_vars

\* C27 happens: a handle was replaced, by a call with the stored flag, only because
\* it was created more than 50 seconds before, and the new handle was polled
C27_Witness ==
    LET k == call[1] IN
        /\ k.pre_created_by # None
        /\ k.pre_created_by.at \in StaleInTime
        /\ k.song_status = k.pre.previous
        /\ SinceCreation(k) > STALE
        /\ k.check = "new"
        /\ created_by.at > k.pre_created_by.at
        /\ Len(k.reqs) >= 2 /\ k.reqs[2].api = "pollQueue"
        /\ k.reqs[2].queueId = QueueId(polling_queue)
        /\ k.pc = "done" /\ k.outcome = "ok"

\* C28: polling_queue is absent exactly when last_polled is absent, a queue once
\* created never becomes absent, and the queue check never subtracts an absent
\* timestamp.
C28_QueueIffTimestamp ==
    /\ polling_queue = None <=> last_polled = None
    /\ created_by # None => polling_queue # None
    /\ \A c \in Callers : call[c].check # "TypeError"

\* C28 happens: with a handle in place one call failed at its subscribe request
\* and the handle and its timestamp are still there
C28_Witness ==
    \E c \in Callers : LET k == call[c] IN
        /\ k.pre.polling_queue # None
        /\ k.failed_at = "subscribe"
        /\ polling_queue # None /\ last_polled # None

\* C30: after one or more mute() calls followed by unmute(), with no other change
\* of volume in between, the speaker's volume is the volume before the first
\* mute(); unmute() does not restore the 0 recorded by a mute() of a muted speaker.
C30_MuteRoundTrip ==
    (mute_hist.op = "unmute" /\ mute_hist.mutes >= 1) =>
        /\ volume = mute_hist.before.i
        /\ (mute_hist.mutes >= 2 /\ mute_hist.before.i # 0) => volume # 0

====
